---- MODULE Spec2Model ----
(***************************************************************************)
(* Model of app.py: the download and info handlers of the YouTube          *)
(* downloader backend, the sweep of the download folder and the deletion   *)
(* of a delivered file when its response is closed.                        *)
(*                                                                         *)
(* Requests run on threads that share the download folder and the clock.   *)
(* Every call of the operating system (listdir, isfile, getmtime, remove,  *)
(* exists, time) is one atomic step; what a handler computes between two   *)
(* such calls belongs to the step that follows.  The engine (yt_dlp) is an *)
(* outside collaborator: while its call is running it may write files      *)
(* under the output template, and it ends by returning or by raising.      *)
(* os.listdir returns the entries in an order the file system chooses: the *)
(* sweep keeps the set of entries it has not visited and takes any of them *)
(* next.                                                                   *)
(*                                                                         *)
(* Time is counted in whole seconds.  A url is a sequence of characters.   *)
(* The first 8 hex digits of the md5 are taken to differ whenever the      *)
(* hashed text differs, and the hashed text is kept as its four parts.     *)
(*                                                                         *)
(* Spec is the server with its requests.  FnSpec applies the functions of  *)
(* the handlers (extract_video_id, the display name, the probe for the     *)
(* downloaded file, the options of the engine) to arguments by themselves. *)
(* SweepTwice runs cleanup_old_files once after the other on a folder that *)
(* nothing else touches.                                                   *)
(***************************************************************************)
EXTENDS Integers, Sequences, FiniteSets, TLC

\* ------------------------------------------------------------------ bounds
\* Number of requests of one behaviour, each served on a thread of its own.
NumRequests == 2
\* Number of times the clock advances in one behaviour.
MaxTicks == 1
\* Number of files the engine writes during one call.
MaxWrites == 2

\* ------------------------------------------------------- program constants
MAX_FILE_AGE == 3600

\* The clock when the process starts (seconds), and the steps it advances
\* by: one second more than MAX_FILE_AGE, so that a file written before the
\* step is too old after it.
StartTime == 4000
TickSteps == {MAX_FILE_AGE + 1}

Threads == 1..NumRequests

\* ------------------------------------------------------------------- urls
UrlWatchA == <<"y","o","u","t","u","b","e",".","c","o","m","/","w","a","t","c","h","?","v","=","a","&","t","=","1">>
UrlShortA == <<"y","o","u","t","u",".","b","e","/","a">>
UrlEmbedB == <<"y","o","u","t","u","b","e",".","c","o","m","/","e","m","b","e","d","/","b","?","x">>
UrlBad == <<"n","o","t"," ","a"," ","u","r","l">>
UrlEmpty == <<>>

\* [^&\n?#]
StopChars == {"&", "\n", "?", "#"}

Pattern1a == <<"y","o","u","t","u","b","e",".","c","o","m","/","w","a","t","c","h","?","v","=">>
Pattern1b == <<"y","o","u","t","u",".","b","e","/">>
Pattern2 == <<"y","o","u","t","u","b","e",".","c","o","m","/","e","m","b","e","d","/">>
Pattern3 == <<"y","o","u","t","u","b","e",".","c","o","m","/","v","/">>
\* The patterns in the order they are tried; the alternatives of one pattern
\* in the order the regular expression lists them.
patterns == << <<Pattern1a, Pattern1b>>, <<Pattern2>>, <<Pattern3>> >>

\* The literal lit stands in url at position i and is followed by at least
\* one character of the group ([^&\n?#]+).
LiteralAt(lit, url, i) ==
    /\ i + Len(lit) <= Len(url)
    /\ \A k \in 1..Len(lit) : url[i + k - 1] = lit[k]
    /\ url[i + Len(lit)] \notin StopChars

\* The group: the longest run of characters outside StopChars from position j.
RECURSIVE GroupFrom(_, _)
GroupFrom(url, j) ==
    IF j > Len(url) \/ url[j] \in StopChars
    THEN <<>>
    ELSE <<url[j]>> \o GroupFrom(url, j + 1)

\* re.search(pattern, url): the match that starts leftmost; at one position
\* the first alternative that matches.  <<>> stands for no match.
Search(alts, url) ==
    LET hits == {i \in 1..Len(url) : \E a \in 1..Len(alts) : LiteralAt(alts[a], url, i)}
    IN  IF hits = {}
        THEN <<>>
        ELSE LET i == CHOOSE h \in hits : \A g \in hits : h <= g
                 a == CHOOSE b \in 1..Len(alts) :
                          /\ LiteralAt(alts[b], url, i)
                          /\ \A c \in 1..(b - 1) : ~LiteralAt(alts[c], url, i)
             IN  GroupFrom(url, i + Len(alts[a]))

\* extract_video_id of a string: the group of the first pattern that
\* matches, <<>> (None) when none does.
RECURSIVE ExtractFrom(_, _)
ExtractFrom(url, p) ==
    IF p > Len(patterns)
    THEN <<>>
    ELSE IF Search(patterns[p], url) # <<>>
         THEN Search(patterns[p], url)
         ELSE ExtractFrom(url, p + 1)

extract_video_id(url) == ExtractFrom(url, 1)

\* --------------------------------------------------------------- requests
\* A JSON member that the body does not hold.
Absent == "<absent>"

\* A request body: json is "none" (no JSON body: request.json raises) or
\* "object"; url is "absent", "number" (a truthy value that is no string)
\* or "string", and then text holds it.
Body(json, url, text, format, quality) ==
    [json |-> json, url |-> url, text |-> text, format |-> format, quality |-> quality]

BadBodies ==
    { Body("none", "absent", <<>>, Absent, Absent),
      Body("object", "absent", <<>>, Absent, Absent),
      Body("object", "number", <<>>, Absent, Absent),
      Body("object", "string", UrlBad, Absent, Absent) }

InfoBodies ==
    BadBodies \cup { Body("object", "string", u, Absent, Absent) :
                        u \in {UrlEmpty, UrlShortA, UrlEmbedB} }

DownloadBodies ==
    BadBodies \cup { Body("object", "string", UrlWatchA, f, Absent) : f \in {Absent, "mp3"} }

\* data.get(key, default)
Get(value, default) == IF value = Absent THEN default ELSE value

\* ------------------------------------------------------------- responses
NoResp == [status |-> 0, success |-> FALSE, error |-> ""]
Ok == [status |-> 200, success |-> TRUE, error |-> ""]
Reject(message) == [status |-> 400, success |-> FALSE, error |-> message]
\* The answer to a download whose file no probe found, without its debug
\* member.
NotFoundBare(expected, all_files) ==
    [status |-> 500, success |-> FALSE, error |-> "Download completed but file not found"]

\* The answer to a download whose file no probe found: status 500 with the
\* output template and os.listdir(DOWNLOAD_FOLDER) as debug.
NotFound(expected, all_files) ==
    [status |-> 500, success |-> FALSE, error |-> "Download completed but file not found",
     debug |-> [expected |-> expected, files |-> all_files]]

\* What extract_info returns: a dictionary in which any key may be missing.
Info(title, thumbnail, duration, uploader) ==
    [title |-> title, thumbnail |-> thumbnail, duration |-> duration, uploader |-> uploader]

EngineInfos ==
    { Info("T", "thumb", "9", "ch"),
      Info("T", Absent, Absent, Absent),
      Info(Absent, "thumb", "9", "ch") }

\* info.get(key): None when the key is missing.
None == "<None>"
GetOrNone(value) == Get(value, None)

\* The answer of /api/info.
InfoOk(video_id, info) ==
    [status |-> 200, success |-> TRUE, error |-> "",
     data |-> [id |-> video_id,
               title |-> GetOrNone(info.title),
               thumbnail |-> GetOrNone(info.thumbnail),
               duration |-> GetOrNone(info.duration),
               channel |-> GetOrNone(info.uploader)]]

\* A handler without its except clause: the exception leaves the handler.
Uncaught(k) == [status |-> 0, success |-> FALSE, error |-> "uncaught"]

\* The except clause of a handler: every Exception raised in its body ends
\* as a 500 envelope.
Except(k) ==
    [status |-> 500, success |-> FALSE,
     error |-> IF k = "info" THEN "Failed to get video info" ELSE "Download failed"]

\* The handler from request.json to the check of the video id: the response
\* it returns there, NoResp when it goes on to the engine.
Validate(k, b) ==
    IF b.json = "none" THEN Except(k)
    ELSE IF b.url = "absent" \/ (b.url = "string" /\ b.text = <<>>) THEN Reject("URL required")
    ELSE IF b.url = "number" THEN Except(k)
    ELSE IF extract_video_id(b.text) = <<>> THEN Reject("Invalid YouTube URL")
    ELSE NoResp

\* ------------------------------------------------------------ file names
\* filename_hash: the hashed text f"{video_id}{format_type}{quality}{timestamp}".
filename_hash(video_id, format_type, quality, timestamp) ==
    <<video_id, format_type, quality, timestamp>>

\* A file of the download folder: the output template and what follows it
\* ("" for the bare template, else "." and the extension).
Path(output_template, ext) == <<output_template, ext>>

\* The extensions probed with the video container first.
VideoFirst == <<"mp4", "mp3", "m4a", "webm", "mkv">>

possible_extensions == <<"mp3", "mp4", "m4a", "webm", "mkv">>

\* What the engine can write under its output template, which names no
\* extension: the bare template, and the file of the post-processing step
\* (FFmpegExtractAudio for mp3, the merged container for a video).
EngineExts(format_type) == {"", IF format_type = "mp3" THEN "mp3" ELSE "mp4"}

\* Files left in the folder by an earlier run of the process: one older than
\* MAX_FILE_AGE when the process starts, one exactly MAX_FILE_AGE old.
OldStem == filename_hash(<<"a">>, "mp4", "720", 0)
OrphanOld == Path(OldStem, "mp4")
OrphanEdge == Path(OldStem, "")
InitFiles == (OrphanOld :> 0) @@ (OrphanEdge :> (StartTime - MAX_FILE_AGE))

\* A remove that leaves the file where it is.
RemoveNothing(fs, path) == fs

\* os.remove(path) on a folder fs.
RemoveFile(fs, path) == [n \in (DOMAIN fs) \ {path} |-> fs[n]]

\* The engine writes path at time t.
WriteFile(fs, path, t) == [n \in (DOMAIN fs) \cup {path} |->
                              IF n = path THEN t ELSE fs[n]]

\* downloaded_file: the first probed extension that exists, else the bare
\* template if it exists, else <<>> (None).
RECURSIVE Probe(_, _, _)
Probe(fs, output_template, i) ==
    IF i > Len(possible_extensions)
    THEN IF Path(output_template, "") \in DOMAIN fs
         THEN Path(output_template, "")
         ELSE <<>>
    ELSE IF Path(output_template, possible_extensions[i]) \in DOMAIN fs
         THEN Path(output_template, possible_extensions[i])
         ELSE Probe(fs, output_template, i + 1)

downloaded_file(fs, output_template) == Probe(fs, output_template, 1)

\* current_time - os.path.getmtime(filepath) > MAX_FILE_AGE
TooOld(current_time, mtime) == current_time - mtime > MAX_FILE_AGE

\* ------------------------------------------------- the display file name
\* The characters of which str.isalnum() is true: the letters and digits of
\* ASCII, and the letters and digits of every other script, of which one
\* stands here ("U+00E9", e with acute accent).
AsciiAlnum ==
    { "A", "B", "C", "D", "E", "F", "G", "H", "I", "J", "K", "L", "M",
      "N", "O", "P", "Q", "R", "S", "T", "U", "V", "W", "X", "Y", "Z",
      "a", "b", "c", "d", "e", "f", "g", "h", "i", "j", "k", "l", "m",
      "n", "o", "p", "q", "r", "s", "t", "u", "v", "w", "x", "y", "z",
      "0", "1", "2", "3", "4", "5", "6", "7", "8", "9" }
OtherAlnum == {"U+00E9"}
isalnum(c) == c \in AsciiAlnum \cup OtherAlnum

\* "".join(c for c in title if c.isalnum() or c in (' ', '-', '_'))
RECURSIVE Keep(_)
Keep(title) ==
    IF title = <<>>
    THEN <<>>
    ELSE IF isalnum(Head(title)) \/ Head(title) \in {" ", "-", "_"}
         THEN <<Head(title)>> \o Keep(Tail(title))
         ELSE Keep(Tail(title))

\* str.rstrip(): the string without the whitespace at its end.
Whitespace == {" ", "\t", "\n", "\r"}
RECURSIVE rstrip(_)
rstrip(t) ==
    IF t # <<>> /\ t[Len(t)] \in Whitespace
    THEN rstrip(SubSeq(t, 1, Len(t) - 1))
    ELSE t

\* safe_title[:50]
TitleLimit == 50
Truncate(t) == SubSeq(t, 1, IF Len(t) < TitleLimit THEN Len(t) ELSE TitleLimit)

\* safe_title: the characters kept, trimmed, then cut to 50.
safe_title(title) == Truncate(rstrip(Keep(title)))

\* info.get('title', 'video'), where <<Absent>> stands for a result of the
\* engine without a title.
DefaultTitle == <<"v","i","d","e","o">>
NoTitle == <<Absent>>
TitleOf(info_title) == IF info_title = NoTitle THEN DefaultTitle ELSE info_title

\* download_name = f"{safe_title}.{format_type}"
download_name(title, format_type) == safe_title(title) \o <<".", format_type>>

\* mimetype='audio/mpeg' if format_type == 'mp3' else 'video/mp4'
mimetype(format_type) == IF format_type = "mp3" THEN "audio/mpeg" ELSE "video/mp4"

\* -------------------------------------------------- the engine's options
\* One alternative of a format selector: best[height<=h][ext=e], with the
\* height as <<h>>, where NoCap and AnyExt stand for a filter that is not
\* there.
NoCap == <<>>
AnyExt == "<any>"
Best(height, ext) == [height |-> height, ext |-> ext]

\* 'best[height<=T][ext=mp4]/best[height<=T]/best': the alternatives in the
\* order the engine tries them.
Chain(T) == << Best(<<T>>, "mp4"), Best(<<T>>, AnyExt), Best(NoCap, AnyExt) >>

\* A selector without its last alternative.
CappedOnly(quality) ==
    IF quality = "720" THEN SubSeq(Chain(720), 1, 2)
    ELSE IF quality = "480" THEN SubSeq(Chain(480), 1, 2)
    ELSE SubSeq(Chain(360), 1, 2)

\* A selector that takes 720 for every quality it does not know.
DefaultTo720(quality) ==
    IF quality = "480" THEN Chain(480)
    ELSE IF quality = "360" THEN Chain(360)
    ELSE Chain(720)

\* format_selector, as the if statement of the video branch sets it.
format_selector(quality) ==
    IF quality = "720" THEN Chain(720)
    ELSE IF quality = "480" THEN Chain(480)
    ELSE Chain(360)

\* ydl_opts of a download.
ydl_opts(format_type, quality, output_template) ==
    IF format_type = "mp3"
    THEN [format |-> "bestaudio/best",
          outtmpl |-> output_template,
          postprocessors |-> << [key |-> "FFmpegExtractAudio",
                                 preferredcodec |-> "mp3",
                                 preferredquality |-> quality] >>]
    ELSE [format |-> format_selector(quality),
          outtmpl |-> output_template,
          postprocessors |-> <<>>]

\* The streams of a source that one alternative of a selector admits.
Admits(alt, stream) ==
    /\ alt.height = NoCap \/ stream.height <= alt.height[1]
    /\ alt.ext = AnyExt \/ stream.ext = alt.ext

\* The engine evaluates a selector: the alternatives in order, the first
\* that admits a stream gives <<x>>, x the best (highest) stream it admits;
\* <<>> when no alternative admits one, and the download then fails.
RECURSIVE SelectFrom(_, _, _)
SelectFrom(chain, streams, i) ==
    IF i > Len(chain)
    THEN <<>>
    ELSE LET ok == {x \in streams : Admits(chain[i], x)}
         IN  IF ok = {}
             THEN SelectFrom(chain, streams, i + 1)
             ELSE << CHOOSE x \in ok : \A y \in ok :
                         \/ y.height < x.height
                         \/ y.height = x.height /\ (x.ext = "mp4" \/ y.ext # "mp4") >>
Select(chain, streams) == SelectFrom(chain, streams, 1)

\* ------------------------------------------------------------------ state
VARIABLES
    now,        \* time.time(), in seconds
    ticks,      \* how often the clock has advanced
    files,      \* the download folder: file name -> modification time
    pc,         \* where each request stands
    kind,       \* "info" or "download"
    body,       \* request.json, once the handler has read it
    cur,        \* cleanup_old_files: current_time
    todo,       \* cleanup_old_files: the entries of os.listdir not yet visited
    entry,      \* cleanup_old_files: filename, <<>> outside the loop body
    expired,    \* the files the listing held that were older than MAX_FILE_AGE
    sweepErr,   \* cleanup_old_files raised and logged
    failed,     \* the entry at which it raised, <<>> if at none
    stem,       \* filename_hash, <<>> before it is computed
    writes,     \* files written so far by the running engine call
    calls,      \* calls of extract_info made for the request
    located,    \* downloaded_file, <<>> if none
    resp,       \* the response returned, NoResp before
    cbErr,      \* the deletion after delivery raised and logged
    young,      \* the sweep of the request deleted a file that was not too old
    input,      \* the arguments of a function applied by itself, <<>> if none
    output      \* what the function returned, <<>> before it has

vars == <<now, ticks, files, pc, kind, body, cur, todo, entry, expired, sweepErr,
          failed, stem, writes, calls, located, resp, cbErr, young, input, output>>

sweepVars == <<cur, todo, entry, expired, sweepErr, failed>>
jobVars == <<stem, writes, calls, located>>
clock == <<now, ticks>>
fnVars == <<input, output>>

\* No request has arrived.
Idle ==
    /\ now = StartTime
    /\ ticks = 0
    /\ pc = [r \in Threads |-> "idle"]
    /\ kind = [r \in Threads |-> "download"]
    /\ body = [r \in Threads |-> Body("none", "absent", <<>>, Absent, Absent)]
    /\ cur = [r \in Threads |-> 0]
    /\ todo = [r \in Threads |-> {}]
    /\ entry = [r \in Threads |-> <<>>]
    /\ expired = [r \in Threads |-> {}]
    /\ sweepErr = [r \in Threads |-> FALSE]
    /\ failed = [r \in Threads |-> <<>>]
    /\ stem = [r \in Threads |-> <<>>]
    /\ writes = [r \in Threads |-> 0]
    /\ calls = [r \in Threads |-> 0]
    /\ located = [r \in Threads |-> <<>>]
    /\ resp = [r \in Threads |-> NoResp]
    /\ cbErr = [r \in Threads |-> FALSE]
    /\ young = [r \in Threads |-> FALSE]

Init ==
    /\ Idle
    /\ files = InitFiles
    /\ input = <<>>
    /\ output = <<>>

\* The clock advances.
Tick ==
    /\ ticks < MaxTicks
    /\ \E d \in TickSteps : now' = now + d
    /\ ticks' = ticks + 1
    /\ UNCHANGED <<fnVars, young, files, pc, kind, body, sweepVars, jobVars, resp, cbErr>>

\* A request arrives: /api/info goes to its handler body, /api/download
\* starts with cleanup_old_files().  The handler reads the body later.
Arrive(r) ==
    /\ pc[r] = "idle"
    /\ \E k \in {"info", "download"} :
            /\ kind' = [kind EXCEPT ![r] = k]
            /\ pc' = [pc EXCEPT ![r] = IF k = "info" THEN "parse" ELSE "listdir"]
    /\ UNCHANGED <<fnVars, young, clock, files, body, sweepVars, jobVars, resp, cbErr>>

\* ------------------------------------------------------ cleanup_old_files
\* The for statement: the loop body runs for the next entry, and the
\* function returns when there is none.
ForNext(entries) == IF entries = {} THEN "parse" ELSE "isfile"

\* A sweep without its except clause: the exception reaches the handler,
\* which ends the request.
SweepReraise(entries) == [pc |-> "done", todo |-> {}]

\* The except clause of cleanup_old_files, reached with entries not yet
\* visited: the error is logged, the entries are dropped and the function
\* returns to the handler.
SweepExcept(entries) == [pc |-> "parse", todo |-> {}]

SweepRaise(r) ==
    /\ sweepErr' = [sweepErr EXCEPT ![r] = TRUE]
    /\ failed' = [failed EXCEPT ![r] = entry[r]]
    /\ pc' = [pc EXCEPT ![r] = SweepExcept(todo[r]).pc]
    /\ todo' = [todo EXCEPT ![r] = SweepExcept(todo[r]).todo]
    /\ entry' = [entry EXCEPT ![r] = <<>>]

SweepNext(r) ==
    /\ pc' = [pc EXCEPT ![r] = ForNext(todo[r])]
    /\ entry' = [entry EXCEPT ![r] = <<>>]
    /\ UNCHANGED <<todo, sweepErr, failed>>

\* current_time = time.time(); os.listdir(DOWNLOAD_FOLDER)
ListDir(r) ==
    /\ pc[r] = "listdir"
    /\ cur' = [cur EXCEPT ![r] = now]
    /\ \/ /\ todo' = [todo EXCEPT ![r] = DOMAIN files]
          /\ pc' = [pc EXCEPT ![r] = ForNext(DOMAIN files)]
          /\ expired' = [expired EXCEPT ![r] =
                            {n \in DOMAIN files : now - files[n] > MAX_FILE_AGE}]
          /\ UNCHANGED <<entry, sweepErr, failed>>
       \/ /\ SweepRaise(r)
          /\ UNCHANGED expired
    /\ UNCHANGED <<fnVars, young, clock, files, kind, body, jobVars, resp, cbErr>>

\* The next filename of the listing; os.path.isfile(filepath)
IsFile(r) ==
    /\ pc[r] = "isfile"
    /\ \E filename \in todo[r] :
          /\ todo' = [todo EXCEPT ![r] = @ \ {filename}]
          /\ IF filename \in DOMAIN files
             THEN /\ pc' = [pc EXCEPT ![r] = "getmtime"]
                  /\ entry' = [entry EXCEPT ![r] = filename]
             ELSE /\ pc' = [pc EXCEPT ![r] = ForNext(todo[r] \ {filename})]
                  /\ UNCHANGED entry
    /\ UNCHANGED <<fnVars, young, clock, files, kind, body, cur, expired, sweepErr, failed, jobVars, resp, cbErr>>

\* os.path.getmtime(filepath) and the comparison with MAX_FILE_AGE
GetMtime(r) ==
    /\ pc[r] = "getmtime"
    /\ IF entry[r] \notin DOMAIN files
       THEN SweepRaise(r)
       ELSE IF TooOld(cur[r], files[entry[r]])
            THEN /\ pc' = [pc EXCEPT ![r] = "remove"]
                 /\ UNCHANGED <<todo, entry, sweepErr, failed>>
            ELSE SweepNext(r)
    /\ UNCHANGED <<fnVars, young, clock, files, kind, body, cur, expired, jobVars, resp, cbErr>>

\* os.remove(filepath): it raises when the file is gone, and it can raise
\* on a file that is there (a permission error).
Remove(r) ==
    /\ pc[r] = "remove"
    /\ \/ /\ entry[r] \in DOMAIN files
          /\ files' = RemoveFile(files, entry[r])
          /\ young' = [young EXCEPT ![r] = @ \/ ~TooOld(cur[r], files[entry[r]])]
          /\ SweepNext(r)
       \/ /\ SweepRaise(r)
          /\ UNCHANGED <<files, young>>
    /\ UNCHANGED <<fnVars, clock, kind, body, cur, expired, jobVars, resp, cbErr>>

\* ------------------------------------------- get_video_info, download_video
\* The handler body up to the call of the engine: request.json, data.get,
\* the two checks of the url and, for a download, the output template.
Parse(r) ==
    /\ pc[r] = "parse"
    /\ \E b \in (IF kind[r] = "info" THEN InfoBodies ELSE DownloadBodies) :
         LET out == Validate(kind[r], b)
             video_id == extract_video_id(b.text)
             format_type == Get(b.format, "mp4")
             quality == Get(b.quality, "720")
             timestamp == now
         IN  /\ body' = [body EXCEPT ![r] = b]
             /\ IF out # NoResp
                THEN /\ resp' = [resp EXCEPT ![r] = out]
                     /\ pc' = [pc EXCEPT ![r] = "done"]
                     /\ UNCHANGED <<stem, calls>>
                ELSE /\ stem' = [stem EXCEPT ![r] =
                                    IF kind[r] = "download"
                                    THEN filename_hash(video_id, format_type, quality, timestamp)
                                    ELSE <<>>]
                     /\ calls' = [calls EXCEPT ![r] = @ + 1]
                     /\ pc' = [pc EXCEPT ![r] = "engine"]
                     /\ UNCHANGED resp
    /\ cur' = [cur EXCEPT ![r] = 0]
    /\ expired' = [expired EXCEPT ![r] = {}]
    /\ failed' = [failed EXCEPT ![r] = <<>>]
    /\ UNCHANGED <<fnVars, young, clock, files, kind, todo, entry, sweepErr, writes, located, cbErr>>

\* ydl.extract_info(url, download=True) is running: the engine writes a
\* file under the output template.
EngineWrite(r) ==
    /\ pc[r] = "engine"
    /\ kind[r] = "download"
    /\ writes[r] < MaxWrites
    /\ \E ext \in EngineExts(Get(body[r].format, "mp4")) :
          files' = WriteFile(files, Path(stem[r], ext), now)
    /\ writes' = [writes EXCEPT ![r] = @ + 1]
    /\ UNCHANGED <<fnVars, young, clock, pc, kind, body, sweepVars, stem, calls, located, resp, cbErr>>

\* extract_info raises: the except clause of the handler answers.
EngineRaise(r) ==
    /\ pc[r] = "engine"
    /\ resp' = [resp EXCEPT ![r] = Except(kind[r])]
    /\ pc' = [pc EXCEPT ![r] = "done"]
    /\ writes' = [writes EXCEPT ![r] = 0]
    /\ UNCHANGED <<fnVars, young, clock, files, kind, body, sweepVars, stem, calls, located, cbErr>>

\* extract_info returns.  /api/info answers with the data; /api/download
\* probes the extensions for the file and answers 500 when there is none.
EngineReturn(r) ==
    /\ pc[r] = "engine"
    /\ IF kind[r] = "info"
       THEN /\ \E info \in EngineInfos :
                  resp' = [resp EXCEPT ![r] = InfoOk(extract_video_id(body[r].text), info)]
            /\ pc' = [pc EXCEPT ![r] = "done"]
            /\ UNCHANGED located
       ELSE IF downloaded_file(files, stem[r]) = <<>>
            THEN /\ resp' = [resp EXCEPT ![r] = NotFound(stem[r], DOMAIN files)]
                 /\ pc' = [pc EXCEPT ![r] = "done"]
                 /\ UNCHANGED located
            ELSE /\ located' = [located EXCEPT ![r] = downloaded_file(files, stem[r])]
                 /\ pc' = [pc EXCEPT ![r] = "send"]
                 /\ UNCHANGED resp
    /\ writes' = [writes EXCEPT ![r] = 0]
    /\ UNCHANGED <<fnVars, young, clock, files, kind, body, sweepVars, stem, calls, cbErr>>

\* send_file(downloaded_file, ...): it raises when the file is gone;
\* otherwise the response is returned with cleanup registered on its close.
Send(r) ==
    /\ pc[r] = "send"
    /\ IF located[r] \in DOMAIN files
       THEN /\ resp' = [resp EXCEPT ![r] = Ok]
            /\ pc' = [pc EXCEPT ![r] = "open"]
       ELSE /\ resp' = [resp EXCEPT ![r] = Except(kind[r])]
            /\ pc' = [pc EXCEPT ![r] = "done"]
    /\ UNCHANGED <<fnVars, young, clock, files, kind, body, sweepVars, jobVars, cbErr>>

\* A cleanup() that removes nothing.
ExistsSkips(present) == "closed"

\* cleanup(): if os.path.exists(downloaded_file), the file is removed next;
\* otherwise cleanup() is over.
IfExists(present) == IF present THEN "unlink" ELSE "closed"

\* The response is closed (sent, or the client went away): cleanup() runs
\* and asks os.path.exists(downloaded_file).
Close(r) ==
    /\ pc[r] = "open"
    /\ pc' = [pc EXCEPT ![r] = IfExists(located[r] \in DOMAIN files)]
    /\ UNCHANGED <<fnVars, young, clock, files, kind, body, sweepVars, jobVars, resp, cbErr>>

\* The except clause of cleanup(): the error is logged, the response that
\* was sent stays as it is.
CleanupExcept(sent) == sent

\* cleanup(): os.remove(downloaded_file), which can raise as in the sweep.
Unlink(r) ==
    /\ pc[r] = "unlink"
    /\ \/ /\ located[r] \in DOMAIN files
          /\ files' = RemoveFile(files, located[r])
          /\ UNCHANGED <<cbErr, resp>>
       \/ /\ cbErr' = [cbErr EXCEPT ![r] = TRUE]
          /\ resp' = [resp EXCEPT ![r] = CleanupExcept(resp[r])]
          /\ UNCHANGED files
    /\ pc' = [pc EXCEPT ![r] = "closed"]
    /\ UNCHANGED <<fnVars, young, clock, kind, body, sweepVars, jobVars>>

Next ==
    \/ Tick
    \/ \E r \in Threads :
          \/ Arrive(r)
          \/ ListDir(r)
          \/ IsFile(r)
          \/ GetMtime(r)
          \/ Remove(r)
          \/ Parse(r)
          \/ EngineWrite(r)
          \/ EngineRaise(r)
          \/ EngineReturn(r)
          \/ Send(r)
          \/ Close(r)
          \/ Unlink(r)

Spec == Init /\ [][Next]_vars

\* The steps a request takes by itself once it has arrived: the handler's
\* own statements, the end of the engine call, and the close of a response
\* that was returned.  Neither the arrival of a request, nor the advance of
\* the clock, nor a write of the engine is among them.
Step(r) ==
    \/ ListDir(r)
    \/ IsFile(r)
    \/ GetMtime(r)
    \/ Remove(r)
    \/ Parse(r)
    \/ EngineRaise(r)
    \/ EngineReturn(r)
    \/ Send(r)
    \/ Close(r)
    \/ Unlink(r)

\* Every request that has arrived keeps running until it has finished.
FairSpec == Spec /\ \A r \in Threads : WF_vars(Step(r))

\* ------------------------------------------- the functions by themselves
\* The variables of the handlers.
handlerVars == <<now, ticks, files, pc, kind, body, cur, todo, entry, expired, sweepErr,
                 failed, stem, writes, calls, located, resp, cbErr, young>>

\* Urls: an optional scheme and host prefix, the part that gives the shape,
\* the id, and what follows the id.
Schemes == { <<>>, <<"h","t","t","p","s",":","/","/","w","w","w",".">> }
WatchSecond == <<"y","o","u","t","u","b","e",".","c","o","m","/","w","a","t","c","h","?","t","=","1","&","v","=">>
Elsewhere == <<"e","x","a","m","p","l","e",".","c","o","m","/">>
Shapes ==
    { [shape |-> "watch", prefix |-> Pattern1a],
      [shape |-> "watch", prefix |-> WatchSecond],
      [shape |-> "short", prefix |-> Pattern1b],
      [shape |-> "embed", prefix |-> Pattern2],
      [shape |-> "v", prefix |-> Pattern3],
      [shape |-> "none", prefix |-> Elsewhere] }
Ids == { <<"a">>, <<"a","-","B","_","1">> }
Tails == { <<>>, <<"&","t","=","1">>, <<"?","x">>, <<"#","y">>, <<"\n","z">> }

ExtractInputs ==
    { [fn |-> "extract_video_id", shape |-> sh.shape, id |-> id,
       url |-> sc \o sh.prefix \o id \o tl] :
          sc \in Schemes, sh \in Shapes, id \in Ids, tl \in Tails }

\* n times the character c.
RECURSIVE Rep(_, _)
Rep(c, n) == IF n = 0 THEN <<>> ELSE <<c>> \o Rep(c, n - 1)

\* Titles the engine returns.
Titles ==
    { NoTitle,
      <<>>,
      <<"a"," ","Z","-","7","_">>,
      <<"a","/","Z",":","?">>,
      <<"a"," "," ">>,
      <<"a"," ","/">>,
      <<"U+00E9","a">>,
      Rep("a", 60),
      Rep("a", 49) \o <<" ","Z">> }

NameInputs ==
    { [fn |-> "download_name", title |-> t, format |-> f] :
          t \in Titles, f \in {Absent, "mp3", "webm"} }

\* Folders that hold any of the files the probe looks for, under one stem.
ProbeStem == filename_hash(<<"a">>, "mp4", "720", StartTime)
ProbeInputs ==
    { [fn |-> "downloaded_file", present |-> S] :
          S \in SUBSET {"mp3", "mp4", "m4a", "webm", "mkv", ""} }
Folder(S) == [n \in {Path(ProbeStem, e) : e \in S} |-> StartTime]

\* Values of format and quality in the body of a download.
OptionInputs ==
    { [fn |-> "ydl_opts", format |-> f, quality |-> q] :
          f \in {Absent, "mp3", "MP3", "mp4", "webm", "avi"},
          q \in {Absent, "720", "480", "360", "1080", "best"} }

\* The streams a source offers.
Stream(height, ext) == [height |-> height, ext |-> ext]
Streams ==
    { Stream(240, "webm"), Stream(360, "mp4"), Stream(480, "webm"),
      Stream(1080, "mp4"), Stream(1080, "webm") }
SelectInputs ==
    { [fn |-> "select", quality |-> q, streams |-> S] :
          q \in {"360", "480", "720"}, S \in (SUBSET Streams) \ {{}} }

FnInit ==
    /\ Idle
    /\ files = InitFiles
    /\ input \in ExtractInputs \cup NameInputs \cup ProbeInputs \cup OptionInputs \cup SelectInputs
    /\ output = <<>>

\* The function named in the input is applied once.
Applies(fn) == input.fn = fn /\ output = <<>>

CallExtractVideoId ==
    /\ Applies("extract_video_id")
    /\ output' = <<extract_video_id(input.url)>>
    /\ UNCHANGED <<input, handlerVars>>

CallDownloadName ==
    /\ Applies("download_name")
    /\ output' = <<download_name(TitleOf(input.title), Get(input.format, "mp4"))>>
    /\ UNCHANGED <<input, handlerVars>>

CallProbe ==
    /\ Applies("downloaded_file")
    /\ output' = <<downloaded_file(Folder(input.present), ProbeStem)>>
    /\ UNCHANGED <<input, handlerVars>>

\* data.get('format', 'mp4'), data.get('quality', '720') and what the
\* handler makes of them: the options of the engine, the content type and
\* the display name.
CallOptions ==
    /\ Applies("ydl_opts")
    /\ LET format_type == Get(input.format, "mp4")
           quality == Get(input.quality, "720")
       IN  output' = << [opts |-> ydl_opts(format_type, quality, ProbeStem),
                         mimetype |-> mimetype(format_type),
                         download_name |-> download_name(<<"a">>, format_type)] >>
    /\ UNCHANGED <<input, handlerVars>>

\* The engine evaluates the selector of a video download on the streams of
\* the source.
CallSelect ==
    /\ Applies("select")
    /\ LET chain == ydl_opts("mp4", input.quality, ProbeStem).format
       IN  output' = << [format |-> chain, stream |-> Select(chain, input.streams)] >>
    /\ UNCHANGED <<input, handlerVars>>

FnNext ==
    \/ CallExtractVideoId
    \/ CallDownloadName
    \/ CallProbe
    \/ CallOptions
    \/ CallSelect

FnSpec == FnInit /\ [][FnNext]_vars

\* ------------------------------------------ the sweep run twice in a row
\* Folders for the sweep: any of two files older than MAX_FILE_AGE, one
\* exactly that old and one written when the process starts.
OrphanOlder == Path(OldStem, "mp3")
Fresh == Path(OldStem, "webm")
SweepFolders ==
    { [n \in S |-> IF n \in {OrphanOld, OrphanOlder} THEN 0
                   ELSE IF n = OrphanEdge THEN StartTime - MAX_FILE_AGE
                   ELSE StartTime] :
          S \in SUBSET {OrphanOld, OrphanOlder, OrphanEdge, Fresh} }

TwiceInit ==
    /\ Idle
    /\ files \in SweepFolders
    /\ input = <<>>
    /\ output = <<>>

\* cleanup_old_files() is called at the start of a download, the first time
\* by request 1 and then by each request once the sweep of the one before it
\* has returned.  Nothing else runs, and the clock reads the same throughout.
SweepCall(r) ==
    /\ IF r = 1 THEN TRUE ELSE pc[r - 1] = "parse"
    /\ Arrive(r)
    /\ kind'[r] = "download"

TwiceNext ==
    \E r \in Threads :
        \/ SweepCall(r)
        \/ ListDir(r)
        \/ IsFile(r)
        \/ GetMtime(r)
        \/ Remove(r)

SweepTwice == TwiceInit /\ [][TwiceNext]_vars

\* ----------------------------------------------------------------- claims
\* A download request that has its output template and has not finished.
InFlight(r) == kind[r] = "download" /\ pc[r] \in {"engine", "send", "open", "unlink"}

\* This step is the os.remove of the sweep of request r, and it succeeded.
SweepDeletes(r) ==
    /\ pc[r] = "remove"
    /\ pc'[r] # "remove"
    /\ entry[r] \in DOMAIN files
    /\ entry[r] \notin DOMAIN files'

\* C1: the sweep never deletes a file whose age, the sweep's current_time
\* minus the modification time the file has when it is deleted, is at most
\* MAX_FILE_AGE.
C1_SweepSparesYoungFiles ==
    [][\A r \in Threads :
          SweepDeletes(r) => cur[r] - files[entry[r]] > MAX_FILE_AGE]_vars

\* C2: two download requests in flight at the same time have different
\* output templates.
C2_DistinctStems ==
    \A r, q \in Threads :
        (r # q /\ InFlight(r) /\ InFlight(q)) => stem[r] # stem[q]

\* C3: from the return of its engine call to the close of its response, the
\* file a request located is not deleted.
C3_LocatedFileStays ==
    [][\A r \in Threads :
          (pc[r] \in {"send", "open"} /\ located[r] \in DOMAIN files)
              => located[r] \in DOMAIN files']_vars

\* This step ends the cleanup() of request r: its response is closed.
Closes(r) == pc[r] \in {"open", "unlink"} /\ pc'[r] = "closed"

\* C4: when the response of a download is closed, the file it located is
\* gone from the folder, or its deletion raised, was logged, and left the
\* response as it was sent.
C4_ClosedMeansDeleted ==
    [][\A r \in Threads :
          Closes(r) =>
              /\ resp'[r] = Ok
              /\ \/ located[r] \notin DOMAIN files'
                 \/ cbErr'[r]]_vars

\* Witness of C4: one response closed with its file deleted, and another
\* closed after a deletion that raised, its file still there.
C4_Witness ==
    \E r, q \in Threads :
        /\ pc[r] = "closed" /\ ~cbErr[r] /\ located[r] \notin DOMAIN files
        /\ pc[q] = "closed" /\ cbErr[q] /\ located[q] \in DOMAIN files /\ resp[q] = Ok

\* A file that the engine call of request r wrote is in the folder.
Wrote(r, ext) == stem[r] # <<>> /\ Path(stem[r], ext) \in DOMAIN files

\* The server can still take a request.
CanArrive == \E q \in Threads : pc[q] = "idle"

\* A file that the engine call of request r wrote is in the folder and is
\* older than MAX_FILE_AGE.
WroteLongAgo(r, ext) ==
    Wrote(r, ext) /\ now - files[Path(stem[r], ext)] > MAX_FILE_AGE

C6_SweepDeletesEveryOldFile ==
    \A r \in Threads :
        (kind[r] = "download" /\ pc[r] = "parse") =>
            \A n \in expired[r] \ {failed[r]} : n \notin DOMAIN files

\* This step is a getmtime or a remove of the sweep of request r that raised.
EntryRaises(r) == pc[r] \in {"getmtime", "remove"} /\ sweepErr'[r] /\ ~sweepErr[r]

\* C7: when examining or deleting one file raises, the sweep goes on with
\* the entries it has not visited.
C7_SweepContinuesAfterError ==
    [][\A r \in Threads :
          (EntryRaises(r) /\ todo[r] # {}) =>
              (pc'[r] = "isfile" /\ todo'[r] = todo[r])]_vars

\* The body holds no url that yields a video id.
NoVideoId(b) ==
    \/ b.json # "object"
    \/ b.url # "string"
    \/ extract_video_id(b.text) = <<>>

\* C8: a request without a url that yields a video id is answered 400 with
\* success false, and the engine is never called for it.
C8_BadUrlIs400 ==
    \A r \in Threads :
        (pc[r] = "done" /\ NoVideoId(body[r])) =>
            (resp[r].status = 400 /\ ~resp[r].success /\ calls[r] = 0)

\* A success response, or an envelope with success false, an error message
\* and status 400 or 500.
Envelope(x) ==
    \/ x.status = 200 /\ x.success
    \/ x.status \in {400, 500} /\ ~x.success /\ x.error # ""

\* C9: every request that has been answered has exactly one response, a
\* success or an error envelope, and the response never changes afterwards.
C9_AlwaysAnEnvelope ==
    /\ [](\A r \in Threads :
             /\ pc[r] \in {"done", "open", "unlink", "closed"} => Envelope(resp[r])
             /\ pc[r] \notin {"done", "open", "unlink", "closed"} => resp[r] = NoResp)
    /\ [][\A r \in Threads : resp[r] # NoResp => resp'[r] = resp[r]]_vars

\* Witness of C9: requests answered after a missing body, after an engine
\* call that raised, and after a file that was gone when it was to be sent.
C9_Witness ==
    \E r, q \in Threads :
        /\ pc[r] = "done" /\ body[r].json = "none" /\ resp[r] = Except(kind[r])
        /\ pc[q] = "done" /\ calls[q] = 1 /\ located[q] # <<>> /\ resp[q] = Except("download")

\* C10: a sweep that raises leaves the request at the start of its handler
\* body with no response yet, as a sweep that succeeds does; a deletion
\* after delivery that raises leaves the response as it was sent.
C10_CleanupFailureIsHarmless ==
    [][\A r \in Threads :
          /\ (sweepErr'[r] /\ ~sweepErr[r]) =>
                 /\ pc'[r] = "parse"
                 /\ todo'[r] = {} /\ entry'[r] = <<>>
                 /\ resp'[r] = NoResp /\ stem'[r] = <<>> /\ calls'[r] = 0
          /\ (cbErr'[r] /\ ~cbErr[r]) =>
                 (pc'[r] = "closed" /\ resp'[r] = resp[r] /\ resp[r] = Ok)]_vars

\* Witness of C10: a download whose sweep raised and whose deletion after
\* delivery raised, answered with the file all the same.
C10_Witness ==
    \E r \in Threads :
        pc[r] = "closed" /\ sweepErr[r] /\ cbErr[r] /\ resp[r] = Ok

\* None of the files the handler probes for exists under the template.
NoCandidate(fs, output_template) ==
    \A ext \in {"mp3", "mp4", "m4a", "webm", "mkv", ""} :
        Path(output_template, ext) \notin DOMAIN fs

C12_NoTitleIsError ==
    \A r \in Threads :
        (kind[r] = "info" /\ pc[r] = "done" /\ resp[r].success) =>
            resp[r].data.title # None

\* The function fn has been applied to the input.
Applied(fn) == input # <<>> /\ input.fn = fn /\ output # <<>>

\* The characters of [A-Za-z0-9 _-].
PlainChars == AsciiAlnum \cup {" ", "_", "-"}

\* C13: the download name is a stem followed by "." and the format, where
\* the stem holds only characters of [A-Za-z0-9 _-], is at most 50
\* characters long and does not end in whitespace.
C13_SafeDownloadName ==
    Applied("download_name") =>
        LET name == output[1]
            n == Len(name) - 2
            st == SubSeq(name, 1, n)
        IN  /\ n >= 0
            /\ name = st \o <<".", Get(input.format, "mp4")>>
            /\ \A i \in 1..n : st[i] \in PlainChars
            /\ n <= 50
            /\ n > 0 => st[n] \notin Whitespace

\* The sweep of request q got its listing: it returned normally, or it
\* raised at one of the entries.
Listed(q) == ~sweepErr[q] \/ failed[q] # <<>>

\* C14: of two sweeps run one after the other with no file created or
\* modified in between, the second deletes nothing.  The first is taken to
\* have got its listing, and the file whose own deletion raised in the first
\* is left out: no sweep could have deleted that one the first time.
C14_SecondSweepDeletesNothing ==
    [][\A r \in Threads \ {1} :
          (SweepDeletes(r) /\ Listed(r - 1)) => entry[r] = failed[r - 1]]_vars

\* C15: for a url of a shape the function knows (the watch page with the v
\* parameter, the short link, the embed path, and the /v/ path) the result
\* is the id, which holds none of "&", "?", "#" and newline; for any other
\* url the result is None.
C15_ExactVideoId ==
    Applied("extract_video_id") =>
        LET video_id == output[1]
        IN  /\ \A i \in 1..Len(video_id) : video_id[i] \notin StopChars
            /\ IF input.shape = "none"
               THEN video_id = <<>>
               ELSE video_id = input.id

\* The extensions in the order the claim gives them, and the place of one
\* of them in it.
ProbeOrder == <<"mp3", "mp4", "m4a", "webm", "mkv">>
Place(ext) == CHOOSE i \in 1..Len(ProbeOrder) : ProbeOrder[i] = ext

\* C16: the file located is the first that exists of <stem>.mp3, .mp4,
\* .m4a, .webm, .mkv in that order; it is the bare <stem> only when none of
\* the five exists, and None only when the bare <stem> does not exist either.
C16_FirstExistingWins ==
    Applied("downloaded_file") =>
        LET got == output[1]
            present == input.present
        IN  IF present = {}
            THEN got = <<>>
            ELSE /\ got # <<>>
                 /\ got[1] = ProbeStem
                 /\ got[2] \in present
                 /\ IF got[2] = ""
                    THEN present = {""}
                    ELSE \A i \in 1..(Place(got[2]) - 1) : ProbeOrder[i] \notin present

\* Witness of C16: .mp4 is located in a folder that also holds .m4a, .mkv
\* and the bare file.
C16_Witness ==
    /\ Applied("downloaded_file")
    /\ input.present = {"mp4", "m4a", "mkv", ""}
    /\ output[1] = Path(ProbeStem, "mp4")

\* The quality tiers as heights.
Height(quality) == IF quality = "360" THEN 360 ELSE IF quality = "480" THEN 480 ELSE 720

\* The selector of the claim for the height T: the best mp4 stream of at
\* most T, then the best stream of at most T, then the best stream.
ThreeLevels(T) ==
    << [height |-> <<T>>, ext |-> "mp4"],
       [height |-> <<T>>, ext |-> AnyExt],
       [height |-> <<>>, ext |-> AnyExt] >>

\* x is a highest stream of the set S.
BestOf(x, S) == x \in S /\ \A y \in S : y.height <= x.height

\* C17: at the quality T of 360, 480 and 720 the engine is given the three
\* level selector of T, and on every source with a stream it selects one:
\* a best mp4 stream of at most T if there is one, else a best stream of at
\* most T if there is one, else a best stream of the source.
C17_ThreeLevelFallback ==
    Applied("select") =>
        LET T == Height(input.quality)
            chosen == output[1].stream
            capped == {y \in input.streams : y.height <= T}
            cappedMp4 == {y \in capped : y.ext = "mp4"}
        IN  /\ output[1].format = ThreeLevels(T)
            /\ Len(chosen) = 1
            /\ IF cappedMp4 # {} THEN BestOf(chosen[1], cappedMp4)
               ELSE IF capped # {} THEN BestOf(chosen[1], capped)
               ELSE BestOf(chosen[1], input.streams)

\* Witness of C17: at quality 720 a source whose streams are all of height
\* 1080 has one of them selected.
C17_Witness ==
    /\ Applied("select")
    /\ input.quality = "720"
    /\ \A y \in input.streams : y.height > 720
    /\ Len(output[1].stream) = 1
    /\ output[1].stream[1].height = 1080

\* C20: every format other than "mp3" is a video download, with the content
\* type video/mp4, no post-processing and a display name that ends in "."
\* and the format; every quality of a video other than "720" and "480"
\* takes the selector of 360; "mp3" alone is an audio download.  Every pair
\* of values yields options for the engine.
C20_ExactStringMatch ==
    Applied("ydl_opts") =>
        LET format_type == Get(input.format, "mp4")
            quality == Get(input.quality, "720")
            out == output[1]
            n == Len(out.download_name)
        IN  /\ n >= 2
            /\ SubSeq(out.download_name, n - 1, n) = <<".", format_type>>
            /\ IF format_type = "mp3"
               THEN /\ out.mimetype = "audio/mpeg"
                    /\ out.opts.format = "bestaudio/best"
                    /\ Len(out.opts.postprocessors) = 1
               ELSE /\ out.mimetype = "video/mp4"
                    /\ out.opts.postprocessors = <<>>
                    /\ out.opts.format =
                           IF quality = "720" THEN ThreeLevels(720)
                           ELSE IF quality = "480" THEN ThreeLevels(480)
                           ELSE ThreeLevels(360)

\* Witness of C20: the format "MP3" with the quality "1080" is a video
\* download with the selector of 360.
C20_Witness ==
    /\ Applied("ydl_opts")
    /\ input.format = "MP3" /\ input.quality = "1080"
    /\ output[1].mimetype = "video/mp4"
    /\ output[1].opts.format = ThreeLevels(360)

\* C18: a download request answered 400 has called the engine zero times
\* and has no output template under which a file could have been written;
\* what its sweep did to the folder was to delete files older than
\* MAX_FILE_AGE, and nothing else.
C18_RejectedOnlySweeps ==
    \A r \in Threads :
        (kind[r] = "download" /\ pc[r] = "done" /\ resp[r].status = 400) =>
            /\ calls[r] = 0
            /\ stem[r] = <<>>
            /\ located[r] = <<>>
            /\ ~young[r]

\* This step is taken by request r and changes the folder.
ChangesFolder(r) == pc'[r] # pc[r] /\ files' # files

\* C19: a download whose engine call raised is answered 500 and deletes
\* nothing, then or later; a file written under its output template stays in
\* the folder, as it is, until the sweep of a request deletes it, being
\* older than MAX_FILE_AGE.
C19_RaisedLeavesFilesToSweep ==
    [][\A r \in Threads :
          /\ (EngineRaise(r) /\ kind[r] = "download") =>
                 /\ resp'[r].status = 500 /\ ~resp'[r].success
                 /\ pc'[r] = "done"
                 /\ files' = files
          /\ (kind[r] = "download" /\ pc[r] = "done" /\ calls[r] = 1 /\ located[r] = <<>>) =>
                 /\ ~ChangesFolder(r)
                 /\ \A ext \in {"", "mp3", "mp4"} :
                        (Wrote(r, ext) /\ ~Wrote(r, ext)') =>
                            \E q \in Threads :
                                /\ SweepDeletes(q)
                                /\ entry[q] = Path(stem[r], ext)
                                /\ TooOld(cur[q], files[entry[q]])]_vars
====
